---- MODULE Spec2Model ----
(***************************************************************************)
(* A model of src/freezer.py: the Freeze decorator and the                 *)
(* ConstantReplacer tree transformer it drives.                            *)
(*                                                                         *)
(* Python values are records [type, v]: the runtime type's name and a      *)
(* payload (a sequence of integers).  Dictionaries are functions whose     *)
(* DOMAIN is the set of keys.  Syntax-tree nodes are records               *)
(* [op, id, ctx, value, kids]; kids holds the child nodes in the order of  *)
(* the node class's _fields, which is the order ast.NodeTransformer        *)
(* visits them in.                                                         *)
(***************************************************************************)
EXTENDS Integers, Sequences, FiniteSets, TLC

(***************************************************************************)
(* Bounds of the model.                                                    *)
(***************************************************************************)
MaxBody == 3
MaxDecos == 2

(***************************************************************************)
(* Values.                                                                 *)
(***************************************************************************)
Val(t, payload) == [type |-> t, v |-> payload]
IntV(n) == Val("int", <<n>>)
ListV(s) == Val("list", s)
MyIntV(n) == Val("MyInt", <<n>>)
NoneV == Val("NoneType", <<>>)
NoVal == Val("", <<>>)
Exc(t) == Val(t, <<>>)
ExcTypes == {"NameError", "UnboundLocalError", "TypeError"}
IsExc(x) == x.type \in ExcTypes

\* The function object Freeze itself, and a user-defined decorator.
FreezeObj == Val("function", <<0>>)
OtherObj == Val("function", <<1>>)

\* src/freezer.py line 18
constantTypes == {"int", "float", "complex", "str", "tuple", "bytes", "bool", "NoneType"}

\* The classes a runtime type derives from, itself included (type.__mro__).
Mro(t) ==
    CASE t = "MyInt" -> {"MyInt", "int", "object"}
      [] t = "bool" -> {"bool", "int", "object"}
      [] OTHER -> {t, "object"}

\* isinstance(value, types)
isinstance(value, types) == Mro(value.type) \cap types # {}

(***************************************************************************)
(* Dictionaries.                                                           *)
(***************************************************************************)
EmptyDict == [k \in {} |-> NoVal]
DictUpdate(d, e) ==
    [k \in DOMAIN d \cup DOMAIN e |-> IF k \in DOMAIN e THEN e[k] ELSE d[k]]
DictDel(d, key) == [k \in DOMAIN d \ {key} |-> d[k]]

(***************************************************************************)
(* Syntax-tree nodes.                                                      *)
(***************************************************************************)
Node(op, id, ctx, value, kids) ==
    [op |-> op, id |-> id, ctx |-> ctx, value |-> value, kids |-> kids]
Name(id, ctx) == Node("Name", id, ctx, NoVal, <<>>)
Load(id) == Name(id, "Load")
Store(id) == Name(id, "Store")
Constant(value) == Node("Constant", "", "", value, <<>>)
BinOp(left, right) == Node("BinOp", "Pow", "", NoVal, <<left, right>>)
Tuple(a, b) == Node("Tuple", "", "Load", NoVal, <<a, b>>)
\* Assign._fields = (targets, value): the targets come first.
Assign(target, value) == Node("Assign", "", "", NoVal, <<target, value>>)
Return(value) == Node("Return", "", "", NoVal, <<value>>)
Global(id) == Node("Global", id, "", NoVal, <<>>)
Arg(id) == Node("arg", id, "", NoVal, <<>>)
\* FunctionDef._fields = (name, args, body, decorator_list): the decorator
\* list is kept beside the node, in the statement record (see Stmt).  The
\* walk passes over its entries too, and leaves them alone: a decorator's
\* name is bound to a function or a module, which the filtering removes.
FunctionDef(name, args, body) == Node("FunctionDef", name, "", NoVal, args \o body)
Lambda(args, body) == Node("Lambda", "<lambda>", "", NoVal, args \o <<body>>)
ClassDef(name, body) == Node("ClassDef", name, "", NoVal, body)

(***************************************************************************)
(* ConstantReplacer (src/freezer.py lines 28-45).  A visit returns the     *)
(* replacement node (Removed for None) and the freeze_data dictionary,     *)
(* which visit_Name mutates.                                               *)
(***************************************************************************)
Removed == Node("None", "", "", NoVal, <<>>)
Visited(node, data) == [node |-> node, data |-> data]

visit_Name_never(node, freeze_data) == Visited(node, freeze_data)

visit_Name_noevict(node, freeze_data) ==
    IF node.id \in DOMAIN freeze_data /\ node.ctx = "Load"
    THEN Visited(Constant(freeze_data[node.id]), freeze_data)
    ELSE Visited(node, freeze_data)

visit_Name(node, freeze_data) ==
    IF node.id \in DOMAIN freeze_data
    THEN IF node.ctx = "Load"
         THEN Visited(Constant(freeze_data[node.id]), freeze_data)
         ELSE Visited(node, DictDel(freeze_data, node.id))
    ELSE Visited(node, freeze_data)

visit_Global(node, freeze_data) == Visited(Removed, freeze_data)

RECURSIVE visit(_, _), generic_visit_kids(_, _, _, _)

\* NodeTransformer.visit: dispatch on the node's class.
visit(node, freeze_data) ==
    CASE node.op = "Name" -> visit_Name(node, freeze_data)
      [] node.op = "Global" -> visit_Global(node, freeze_data)
      [] OTHER ->
           LET r == generic_visit_kids(node.kids, 1, <<>>, freeze_data)
           IN  Visited([node EXCEPT !.kids = r.node], r.data)

\* NodeTransformer.generic_visit: the children in field order, each visit
\* seeing the dictionary as the earlier visits left it; a child whose visit
\* returns None is dropped.
generic_visit_kids(kids, i, acc, freeze_data) ==
    IF i > Len(kids)
    THEN Visited(acc, freeze_data)
    ELSE LET r == visit(kids[i], freeze_data)
         IN  generic_visit_kids(kids, i + 1,
                 IF r.node = Removed THEN acc ELSE Append(acc, r.node), r.data)

(***************************************************************************)
(* What calling a function object computes: the interpreter's evaluation   *)
(* of a code body.  A name is local to the function when it is a           *)
(* parameter or is stored to anywhere in the body and not declared global; *)
(* every other name is looked up in the function's globals.                *)
(***************************************************************************)
RECURSIVE NamesIn(_, _, _)
\* The ids of the nodes of class op (and context ctx, "" for any) in kids.
NamesIn(kids, op, ctx) ==
    UNION { (IF k.op = op /\ (ctx = "" \/ k.ctx = ctx) THEN {k.id} ELSE {})
            \cup NamesIn(k.kids, op, ctx) : k \in {kids[i] : i \in 1..Len(kids)} }

IsArg(node) == node.op = "arg"
IsBody(node) == node.op # "arg"
ParamsOf(code) == SelectSeq(code.kids, IsArg)
BodyOf(code) == SelectSeq(code.kids, IsBody)
LocalNames(code) ==
    (NamesIn(ParamsOf(code), "arg", "") \cup NamesIn(BodyOf(code), "Name", "Store"))
        \ NamesIn(BodyOf(code), "Global", "")

Pow(a, b) == a ^ b

RECURSIVE EvalExpr(_, _, _, _)
EvalExpr(e, loc, glob, locals) ==
    CASE e.op = "Constant" -> e.value
      [] e.op = "Name" ->
           IF e.id \in locals
           THEN IF e.id \in DOMAIN loc THEN loc[e.id] ELSE Exc("UnboundLocalError")
           ELSE IF e.id \in DOMAIN glob THEN glob[e.id] ELSE Exc("NameError")
      [] OTHER ->
           LET l == EvalExpr(e.kids[1], loc, glob, locals)
               r == EvalExpr(e.kids[2], loc, glob, locals)
           IN  IF IsExc(l) THEN l
               ELSE IF IsExc(r) THEN r
               ELSE IF e.op = "Tuple" THEN Val("tuple", l.v \o r.v)
               ELSE IF l.type \in {"int", "MyInt"} /\ r.type \in {"int", "MyInt"}
                    THEN IntV(Pow(l.v[1], r.v[1]))
                    ELSE Exc("TypeError")

RECURSIVE ExecBody(_, _, _, _, _)
ExecBody(body, i, loc, glob, locals) ==
    IF i > Len(body) THEN NoneV
    ELSE LET s == body[i] IN
         CASE s.op = "Return" -> EvalExpr(s.kids[1], loc, glob, locals)
           [] s.op = "Assign" ->
                LET v == EvalExpr(s.kids[2], loc, glob, locals)
                    t == s.kids[1].id
                IN  IF IsExc(v) THEN v
                    ELSE IF t \in locals
                         THEN ExecBody(body, i + 1, DictUpdate(loc, [k \in {t} |-> v]), glob, locals)
                         ELSE ExecBody(body, i + 1, loc, DictUpdate(glob, [k \in {t} |-> v]), locals)
           [] s.op = "Global" -> ExecBody(body, i + 1, loc, glob, locals)
           [] OTHER -> EvalExpr(s, loc, glob, locals)

\* code(*args) with the globals namespace glob; one IntV per parameter.
CallCode(code, arg, glob) ==
    LET ps == NamesIn(ParamsOf(code), "arg", "")
    IN  ExecBody(BodyOf(code), 1, [p \in ps |-> arg], glob, LocalNames(code))

(***************************************************************************)
(* The namespaces Freeze meets.                                            *)
(***************************************************************************)
\* The globals of the module freezer.py itself: what lines 13-48 bind.
FreezerGlobals ==
    [k \in {"Freeze", "ast", "inspect"} |->
        IF k = "Freeze" THEN FreezeObj ELSE Val("module", <<>>)]
\* Names that resolve through the builtins namespace.
Builtins == {"staticmethod"}
\* inspect.getsource reads the file co_filename names; a pseudo file name
\* (in angle brackets) has no source.
SourceFiles == {"module.py"}

Frame(f_locals, f_globals) == [f_locals |-> f_locals, f_globals |-> f_globals]
f_back(i) == i + 1

(***************************************************************************)
(* Freeze (src/freezer.py lines 48-162), stage by stage.                    *)
(***************************************************************************)
Stmt(stmt, decorator_list, def, target) ==
    [stmt |-> stmt, decorator_list |-> decorator_list, def |-> def, target |-> target]
Deco(form, id) == [form |-> form, id |-> id]

\* What a Freeze call leaves behind: how it ended (status, the exception's
\* type, the stage that raised it), the values of its locals scope (as
\* captured, and as handed to the ConstantReplacer), newDecoList,
\* isNotAssign and newFnc, the frame it read with its namespaces as the call
\* left them, and the object it returned.
Outcome(status, exc, stage, scope, filtered, newDecoList, isNotAssign, newFnc, frame, obj) ==
    [status |-> status, exc |-> exc, stage |-> stage, scope |-> scope,
     filtered |-> filtered, newDecoList |-> newDecoList, isNotAssign |-> isNotAssign,
     newFnc |-> newFnc, frame |-> frame, obj |-> obj]
NoOutcome(fnc, frame) ==
    Outcome("none", "", "", EmptyDict, EmptyDict, <<>>, TRUE, Removed, frame, fnc)
Raise(o, exc, stage) == [o EXCEPT !.status = "raised", !.exc = exc, !.stage = stage]

\* lines 59-61: isinstance(fnc, (FunctionType, type))
IsTarget(fnc) == fnc.kind \in {"function", "class"}

\* lines 64-87: the body of the try block.  exc is the exception it ends
\* with ("" for none), frameBound whether line 79 was reached.
SelectFrame(stack, depth) == IF depth # 0 THEN stack[f_back(f_back(1))] ELSE stack[f_back(1)]

\* A dictionary object: ref tells which of the frame's namespaces the object
\* is ("" for an object of its own), d what it holds.
DictObj(ref, d) == [ref |-> ref, d |-> d]
copy(obj) == DictObj("", obj.d)
update(obj, e) == DictObj(obj.ref, DictUpdate(obj.d, e))
\* The frame's namespaces once the dictionary object holds d.
WriteBack(frame, ref, d) ==
    CASE ref = "f_locals" -> [frame EXCEPT !.f_locals = d]
      [] ref = "f_globals" -> [frame EXCEPT !.f_globals = d]
      [] OTHER -> frame

CaptureScope_localsAlways(frame, enforce_globals) ==
    update(copy(DictObj("f_globals", frame.f_globals)), frame.f_locals)

\* lines 82-87
CaptureScope(frame, enforce_globals) ==
    IF enforce_globals
    THEN update(copy(DictObj("f_locals", frame.f_locals)), frame.f_globals)
    ELSE update(copy(DictObj("f_globals", frame.f_globals)), frame.f_locals)

TryBlock(fnc, enforce_globals, depth, stack) ==
    IF fnc.filename \notin SourceFiles
    THEN \* line 65: inspect.getsource
         [exc |-> "OSError", frameBound |-> FALSE, scope |-> DictObj("", EmptyDict)]
    ELSE IF fnc.indented
    THEN \* line 75: the raw parse of an indented block (what lines 67-72
         \* parsed, or failed to, is not used)
         [exc |-> "IndentationError", frameBound |-> FALSE, scope |-> DictObj("", EmptyDict)]
    ELSE [exc |-> "", frameBound |-> TRUE,
          scope |-> CaptureScope(SelectFrame(stack, depth), enforce_globals)]

\* lines 91-93: the handler builds its message from type(e); e is a local
\* of Freeze that only line 122 binds.
eBound == FALSE
HandlerExc == IF eBound THEN "FreezeError" ELSE "UnboundLocalError"
\* lines 95-96: del frame
FinallyExc(frameBound, pending) == IF frameBound THEN pending ELSE "UnboundLocalError"

\* lines 104-110: the first loop, looking for the name Freeze goes by.
\* self = "" stands for _self left unbound.
RECURSIVE FindSelf(_, _, _)
FindSelf(decos, i, scope) ==
    IF i > Len(decos) THEN [exc |-> "", self |-> ""]
    ELSE LET deco == decos[i] IN
         CASE deco.form \in {"Name", "Call"} ->
                IF deco.id \notin DOMAIN scope THEN [exc |-> "KeyError", self |-> ""]
                ELSE IF scope[deco.id] = FreezeObj THEN [exc |-> "", self |-> deco.id]
                ELSE FindSelf(decos, i + 1, scope)
           [] deco.form = "CallAttr" -> [exc |-> "AttributeError", self |-> ""]
           [] OTHER -> FindSelf(decos, i + 1, scope)

\* lines 112-120: the second loop, building newDecoList.
RECURSIVE KeepDecos(_, _, _, _)
KeepDecos(decos, i, self, newDecoList) ==
    IF i > Len(decos) THEN [exc |-> "", list |-> newDecoList]
    ELSE LET deco == decos[i] IN
         CASE deco.form \in {"Name", "Call"} ->
                IF self = "" THEN [exc |-> "UnboundLocalError", list |-> newDecoList]
                ELSE KeepDecos(decos, i + 1, self,
                        IF deco.id # self THEN Append(newDecoList, deco) ELSE newDecoList)
           [] deco.form = "CallAttr" -> [exc |-> "AttributeError", list |-> newDecoList]
           [] OTHER -> KeepDecos(decos, i + 1, self, newDecoList)

\* lines 103-131: exc is the exception that leaves the statement.
StripSelf(astMod, scope) ==
    IF astMod.stmt \notin {"FunctionDef", "ClassDef"}
    THEN \* astTgt.decorator_list raises AttributeError (lines 122-129)
         IF astMod.stmt = "Assign"
         THEN [exc |-> "", isNotAssign |-> FALSE, newDecoList |-> <<>>]
         ELSE [exc |-> "AttributeError", isNotAssign |-> FALSE, newDecoList |-> <<>>]
    ELSE LET f == FindSelf(astMod.decorator_list, 1, scope)
             k == KeepDecos(astMod.decorator_list, 1, f.self, <<>>)
         IN  IF f.exc # "" THEN [exc |-> f.exc, isNotAssign |-> FALSE, newDecoList |-> <<>>]
             ELSE IF k.exc # "" THEN [exc |-> k.exc, isNotAssign |-> FALSE, newDecoList |-> <<>>]
             ELSE [exc |-> "", isNotAssign |-> TRUE, newDecoList |-> k.list]

\* lines 137-141: the entries that survive the deletions.
FilterScope(scope, ignore) ==
    LET keep == {key \in DOMAIN scope :
                    isinstance(scope[key], constantTypes) /\ key \notin ignore}
    IN  [key \in keep |-> scope[key]]

\* line 155, compile(): a Constant must hold a value of exactly a literal's
\* type, and a definition needs a statement in its body.
RECURSIVE BadConstant(_)
BadConstant(node) ==
    \/ node.op = "Constant" /\ node.value.type \notin constantTypes
    \/ \E i \in 1..Len(node.kids) : BadConstant(node.kids[i])

CompileExc(newFnc) ==
    IF BadConstant(newFnc) THEN "TypeError"
    ELSE IF newFnc.op \in {"FunctionDef", "ClassDef"} /\ BodyOf(newFnc) = <<>>
    THEN "ValueError"
    ELSE ""

\* line 155, exec(): with no namespaces given the module code runs in the
\* globals of freezer.py and the locals of this Freeze call, where the
\* decorator expressions re-attached to the definition are evaluated.
ExecNames == DOMAIN FreezerGlobals \cup Builtins
ExecExc(newDecoList) ==
    IF \E i \in 1..Len(newDecoList) : newDecoList[i].id \notin ExecNames
    THEN "NameError" ELSE ""

\* lines 157-160: what is returned.  A function keeps its identity and its
\* globals and gets the new code; an assignment target is the new object
\* the exec created, whose globals are those of the exec.  (locals() shows
\* what the exec bound, as it does in CPython up to 3.12.)
Rebind(fnc, isNotAssign, newFnc) ==
    IF isNotAssign
    THEN [fnc EXCEPT !.code = newFnc, !.filename = "<ast>"]
    ELSE [fnc EXCEPT !.code = newFnc, !.filename = "<ast>",
                     !.globalsRef = "freezer", !.oid = fnc.oid + 1]

\* lines 48-162
Freeze(fnc, enforce_globals, ignore, depth, stack) ==
    LET frame == SelectFrame(stack, depth)
        o0 == NoOutcome(fnc, frame)
        t == TryBlock(fnc, enforce_globals, depth, stack)
        scope == t.scope.d
        o1 == [o0 EXCEPT !.scope = scope, !.frame = WriteBack(frame, t.scope.ref, scope)]
        astMod == fnc.tree
        s == StripSelf(astMod, scope)
        filtered == FilterScope(scope, ignore)
        \* line 143: the ConstantReplacer works on the dictionary scope itself
        walk == visit(astMod.def, filtered)
        newFnc == walk.node
        o3 == [o1 EXCEPT !.isNotAssign = s.isNotAssign, !.newDecoList = s.newDecoList,
                         !.filtered = filtered, !.newFnc = newFnc,
                         !.frame = WriteBack(frame, t.scope.ref, walk.data)]
    IN  IF ~IsTarget(fnc) THEN Raise(o0, "FreezeError", "target")
        ELSE IF t.exc # "" THEN Raise(o0, FinallyExc(t.frameBound, HandlerExc), "source")
        ELSE IF s.exc # "" THEN Raise(o1, s.exc, "strip")
        ELSE IF CompileExc(newFnc) # "" THEN Raise(o3, CompileExc(newFnc), "compile")
        ELSE IF ExecExc(s.newDecoList) # "" THEN Raise(o3, ExecExc(s.newDecoList), "exec")
        ELSE IF s.isNotAssign /\ fnc.kind = "class"
        THEN \* line 158: a class has no __code__
             Raise(o3, "AttributeError", "rebind")
        ELSE [o3 EXCEPT !.status = "returned", !.stage = "done",
                        !.obj = Rebind(fnc, s.isNotAssign, newFnc)]

(***************************************************************************)
(* The program around Freeze: a module that defines a target, applies      *)
(* Freeze to it, later rebinds or mutates its own names and calls what     *)
(* Freeze returned.                                                        *)
(***************************************************************************)
VARIABLES
    modGlobals,    \* the globals of the module that defines the target
    callerLocals,  \* the locals of the function Freeze is called from
    atModule,      \* Freeze is applied at module level: f_locals is f_globals
    usage,         \* "decorator" (@Freeze), "factory" (Freeze(...)(t)), "direct" (Freeze(t))
    cfg,           \* the arguments enforce_globals and ignore
    fnc,           \* the target object
    pc,            \* "defined", "factory", "returned", "raised"
    res,           \* the outcome of the Freeze call
    res2,          \* the outcome of a second Freeze call on what the first returned
    lastCall       \* the last call of the returned callable

vars == <<modGlobals, callerLocals, atModule, usage, cfg, fnc, pc, res, res2, lastCall>>

Object(kind, qualname, filename, indented, tree) ==
    [kind |-> kind, qualname |-> qualname, filename |-> filename, indented |-> indented,
     tree |-> tree, code |-> tree.def, globalsRef |-> "defining", oid |-> 1]

DefinerFrame == Frame(IF atModule THEN modGlobals ELSE callerLocals, modGlobals)
FreezeFrame == Frame(EmptyDict, FreezerGlobals)
\* The frame of the lambda of lines 55-58.
ClosureFrame ==
    Frame([k \in {"_fnc", "enforce_globals"} |->
              IF k = "_fnc" THEN Val("function", <<2>>) ELSE Val("bool", <<0>>)],
          FreezerGlobals)
StackDirect == <<FreezeFrame, DefinerFrame>>
StackFactory == <<FreezeFrame, ClosureFrame, DefinerFrame>>

(***************************************************************************)
(* The inputs.                                                             *)
(***************************************************************************)
SeqsUpTo(S, n) == UNION {[1..k -> S] : k \in 0..n}

StmtSet ==
    { Assign(Store("a"), Load("N")),
      Assign(Store("N"), Constant(IntV(10))),
      Assign(Store("N"), Load("N")),
      Return(Tuple(Load("a"), Load("N"))),
      Return(BinOp(Load("x"), Load("N"))),
      Global("N") }
\* A body has a statement, and a global declaration precedes every use of
\* its name (anything else is a SyntaxError where the target is defined).
Bodies ==
    { b \in SeqsUpTo(StmtSet, MaxBody) :
        /\ Len(b) >= 1
        /\ \A i \in 1..Len(b) : b[i].op = "Global" => \A j \in 1..i : b[j].op = "Global" }
ArgLists == {<<>>, <<Arg("x")>>}

FreezeDecos == {Deco("Name", "Freeze"), Deco("Call", "Freeze")}
OtherDecos ==
    { Deco("Name", "other"), Deco("Call", "other"), Deco("Attribute", "mod"),
      Deco("CallAttr", "mod"), Deco("Name", "staticmethod") }
FreezeAt(l) == {i \in 1..Len(l) : l[i] \in FreezeDecos}
\* At most one entry is Freeze's own.  A builtin that does not return a
\* plain function can only stand above it: everything below has been
\* applied to the target before Freeze sees it.
DecoLists ==
    { l \in SeqsUpTo(FreezeDecos \cup OtherDecos, MaxDecos + 1) :
        /\ Cardinality(FreezeAt(l)) <= 1
        /\ Len(l) - Cardinality(FreezeAt(l)) <= MaxDecos
        /\ \A i \in 1..Len(l) : l[i].id = "staticmethod" =>
               \E j \in FreezeAt(l) : i < j }
UsageOf(l) ==
    IF \E i \in FreezeAt(l) : l[i].form = "Name" THEN "decorator"
    ELSE IF FreezeAt(l) # {} THEN "factory" ELSE "direct"

Namespace(N, x) ==
    DictUpdate(DictUpdate([k \in {"Freeze", "other"} |->
                              IF k = "Freeze" THEN FreezeObj ELSE OtherObj], N), x)
Bind(k, v) == [n \in {k} |-> v]
Cfg(enforce_globals, ignore) == [enforce_globals |-> enforce_globals, ignore |-> ignore]

PowerBody == <<Return(BinOp(Load("x"), Load("N")))>>
ClassBody ==
    << Assign(Store("a"), Load("N")),
       FunctionDef("m", <<Arg("self")>>, <<Return(Load("N"))>>) >>

\* A function defined and decorated at module level: any body.
InitBodies ==
    /\ atModule = TRUE
    /\ callerLocals = EmptyDict
    /\ \E N \in {Bind("N", IntV(3)), Bind("N", ListV(<<1>>)), Bind("N", MyIntV(4))},
          x \in {EmptyDict, Bind("x", IntV(5))} : modGlobals = Namespace(N, x)
    /\ \E u \in {"decorator", "factory"} :
          /\ usage = u
          /\ cfg = Cfg(FALSE, IF u = "factory" THEN {"N"} ELSE {})
          /\ \E args \in ArgLists, body \in Bodies :
                fnc = Object("function", "power", "module.py", FALSE,
                             Stmt("FunctionDef",
                                  <<Deco(IF u = "factory" THEN "Call" ELSE "Name", "Freeze")>>,
                                  FunctionDef("power", args, body), ""))

\* A function or a class under any decorator list.
InitDecos ==
    /\ atModule = TRUE
    /\ callerLocals = EmptyDict
    /\ modGlobals = Namespace(Bind("N", IntV(3)), EmptyDict)
    /\ \E l \in DecoLists :
          /\ usage = UsageOf(l)
          /\ cfg = Cfg(FALSE, {})
          /\ \/ fnc = Object("function", "power", "module.py", FALSE,
                             Stmt("FunctionDef", l,
                                  FunctionDef("power", <<Arg("x")>>, PowerBody), ""))
             \/ /\ UsageOf(l) # "direct"
                /\ fnc = Object("class", "K", "module.py", FALSE,
                                Stmt("ClassDef", l, ClassDef("K", ClassBody), ""))

\* Freeze called from inside a function on a module-level function.
InitFrames ==
    /\ atModule = FALSE
    /\ \E N \in {EmptyDict, Bind("N", IntV(7))}, x \in {EmptyDict, Bind("x", IntV(5))} :
          callerLocals = DictUpdate(N, x)
    /\ \E N \in {EmptyDict, Bind("N", IntV(3))}, x \in {EmptyDict, Bind("x", IntV(6))} :
          modGlobals = Namespace(N, x)
    /\ usage \in {"direct", "factory"}
    /\ \E e \in BOOLEAN, ig \in {{}, {"x"}} : cfg = Cfg(e, ig)
    /\ \E args \in ArgLists :
          fnc = Object("function", "power", "module.py", FALSE,
                       Stmt("FunctionDef", <<>>, FunctionDef("power", args, PowerBody), ""))

\* Lambdas, objects of other kinds, and sources that cannot be read or parsed.
InitSources ==
    /\ atModule = TRUE
    /\ callerLocals = EmptyDict
    /\ \E N \in {Bind("N", IntV(3)), Bind("N", ListV(<<1>>))} :
          modGlobals = Namespace(N, EmptyDict)
    /\ usage \in {"direct", "factory"}
    /\ cfg = Cfg(FALSE, {})
    /\ \E file \in {"module.py", "<string>"}, ind \in BOOLEAN :
          \/ \E st \in {"Assign", "Expr"}, args \in ArgLists,
                e \in {Load("N"), BinOp(Load("x"), Load("N"))} :
                fnc = Object("function", "<lambda>", file, ind,
                             Stmt(st, <<>>, Lambda(args, e), "f"))
          \/ \E k \in {"function", "class", "other"} :
                fnc = Object(k, "power", file, ind,
                             Stmt(IF k = "class" THEN "ClassDef" ELSE "FunctionDef",
                                  IF usage = "factory" THEN <<Deco("Call", "Freeze")>> ELSE <<>>,
                                  IF k = "class" THEN ClassDef("power", ClassBody)
                                  ELSE FunctionDef("power", <<Arg("x")>>, PowerBody), ""))

NoCall == [called |-> FALSE, result |-> NoVal, glob |-> EmptyDict]

Init ==
    /\ pc = "defined"
    /\ (InitBodies \/ InitDecos \/ InitFrames \/ InitSources)
    /\ res = NoOutcome(fnc, DefinerFrame)
    /\ res2 = NoOutcome(fnc, DefinerFrame)
    /\ lastCall = NoCall

(***************************************************************************)
(* The steps.                                                              *)
(***************************************************************************)
Finish(o) ==
    /\ res' = o
    /\ pc' = o.status
    /\ fnc' = IF o.status = "returned" /\ o.isNotAssign THEN o.obj ELSE fnc
    \* the namespaces of the frame Freeze read, as the call left them (at
    \* module level f_locals and f_globals are one dictionary)
    /\ modGlobals' = IF atModule /\ o.frame.f_locals # modGlobals
                     THEN o.frame.f_locals ELSE o.frame.f_globals
    /\ callerLocals' = IF atModule THEN callerLocals ELSE o.frame.f_locals
    /\ UNCHANGED <<atModule, usage, cfg, res2, lastCall>>

\* @Freeze above a definition, or Freeze(target, ...) called on it.
FreezeDirect ==
    /\ pc = "defined"
    /\ usage \in {"decorator", "direct"}
    /\ Finish(Freeze(fnc, cfg.enforce_globals, cfg.ignore, 0, StackDirect))

\* lines 54-58: Freeze(...) without a target returns the closure.
MakeFactory ==
    /\ pc = "defined"
    /\ usage = "factory"
    /\ pc' = "factory"
    /\ UNCHANGED <<modGlobals, callerLocals, atModule, usage, cfg, fnc, res, res2, lastCall>>

\* lines 55-58: the closure applied to the target calls Freeze with depth = 1.
ApplyFactory ==
    /\ pc = "factory"
    /\ Finish(Freeze(fnc, cfg.enforce_globals, cfg.ignore, 1, StackFactory))

\* The defining module rebinds one of its names.
Reassign ==
    /\ pc = "returned"
    /\ \E n \in {"N", "x"} :
          /\ n \in DOMAIN modGlobals
          /\ modGlobals[n] # IntV(9)
          /\ modGlobals' = [modGlobals EXCEPT ![n] = IntV(9)]
    /\ UNCHANGED <<callerLocals, atModule, usage, cfg, fnc, pc, res, res2, lastCall>>

\* The defining module mutates a list it holds in place.
Mutate ==
    /\ pc = "returned"
    /\ \E n \in DOMAIN modGlobals :
          /\ modGlobals[n].type = "list"
          /\ Len(modGlobals[n].v) < 2
          /\ modGlobals' = [modGlobals EXCEPT ![n] = ListV(Append(modGlobals[n].v, 2))]
    /\ UNCHANGED <<callerLocals, atModule, usage, cfg, fnc, pc, res, res2, lastCall>>

GlobalsOf(obj) == IF obj.globalsRef = "defining" THEN modGlobals ELSE FreezerGlobals

\* The callable Freeze returned is called (with 2 for its parameter).
Call ==
    /\ pc = "returned"
    /\ res.obj.kind = "function"
    /\ lastCall' = [called |-> TRUE,
                    result |-> CallCode(res.obj.code, IntV(2), GlobalsOf(res.obj)),
                    glob |-> modGlobals]
    /\ lastCall' # lastCall
    /\ UNCHANGED <<modGlobals, callerLocals, atModule, usage, cfg, fnc, pc, res, res2>>

\* Freeze(target) on the callable an earlier Freeze returned.
Refreeze ==
    /\ pc = "returned"
    /\ res2.status = "none"
    /\ res2' = Freeze(res.obj, cfg.enforce_globals, cfg.ignore, 0, StackDirect)
    /\ res' = IF res2'.status = "returned" /\ res2'.isNotAssign
              THEN [res EXCEPT !.obj = res2'.obj] ELSE res
    /\ fnc' = IF res2'.status = "returned" /\ res2'.isNotAssign /\ res.isNotAssign
              THEN res2'.obj ELSE fnc
    /\ UNCHANGED <<modGlobals, callerLocals, atModule, usage, cfg, pc, lastCall>>

Next ==
    \/ FreezeDirect
    \/ MakeFactory
    \/ ApplyFactory
    \/ Reassign
    \/ Mutate
    \/ Call
    \/ Refreeze

Spec == Init /\ [][Next]_vars

(***************************************************************************)
(* Properties.                                                             *)
(***************************************************************************)
RECURSIVE Leaves(_)
\* The Name and Constant nodes below kids, in the order the walk visits them.
Leaves(kids) ==
    IF kids = <<>> THEN <<>>
    ELSE LET k == Head(kids)
         IN  (IF k.op \in {"Name", "Constant"} THEN <<k>> ELSE Leaves(k.kids))
                 \o Leaves(Tail(kids))

Finished == pc \in {"returned", "raised"}
\* The Freeze call got as far as the tree walk of line 143.
Walked == Finished /\ res.stage \in {"compile", "exec", "rebind", "done"}
OrigDef == fnc.tree.def
OrigBody == BodyOf(OrigDef)
ReadIn(body) == NamesIn(body, "Name", "Load")
WrittenIn(body) == NamesIn(body, "Name", "Store")
ParamNames(def) == NamesIn(ParamsOf(def), "arg", "")
DecoratedFunction ==
    /\ fnc.kind = "function"
    /\ fnc.tree.stmt = "FunctionDef"
    /\ usage \in {"decorator", "factory"}
\* The captured names the spec lets Freeze inline: bound to a value whose
\* type is one of the allow-listed ones, and not ignored.
Eligible(scope) ==
    {n \in DOMAIN scope : scope[n].type \in constantTypes /\ n \notin cfg.ignore}
\* ... that the body reads and never writes.
Pinned == {n \in Eligible(res.scope) \cap ReadIn(OrigBody) : n \notin WrittenIn(OrigBody)}
ExampleBody ==
    << Assign(Store("a"), Load("N")),
       Assign(Store("N"), Constant(IntV(10))),
       Return(Tuple(Load("a"), Load("N"))) >>

\* C1: once Freeze has returned for a decorated function, no read of a
\* pinned name (captured with an allow-listed value, not ignored, never
\* written in the body) is left in its code, and every later call returns
\* what the original body returns with each pinned name bound to the value
\* it had at decoration time, whatever the defining module has rebound since
\* (the comparison with the original body is made for bodies without global
\* declarations in which no eligible name is a parameter or is written).
C1_Pinning ==
    (pc = "returned" /\ DecoratedFunction) =>
        /\ \A n \in Pinned : n \notin ReadIn(BodyOf(res.obj.code))
        /\ ( /\ lastCall.called
             /\ Pinned # {}
             /\ Eligible(res.scope) \cap (WrittenIn(OrigBody) \cup ParamNames(OrigDef)) = {}
             /\ NamesIn(OrigBody, "Global", "") = {} )
           => lastCall.result =
                 CallCode(OrigDef, IntV(2),
                          DictUpdate(lastCall.glob, [n \in Pinned |-> res.scope[n]]))

\* C1 witness: N was 3 at decoration and is 9 now; power(2) returned 8.
C1_Witness ==
    /\ pc = "returned" /\ DecoratedFunction /\ lastCall.called
    /\ OrigBody = PowerBody /\ ParamNames(OrigDef) = {"x"}
    /\ res.scope["N"] = IntV(3)
    /\ lastCall.glob["N"] = IntV(9)
    /\ lastCall.result = IntV(8)

\* C2: in the order of the walk, for every name of the mapping handed to
\* the ConstantReplacer, each read that comes before the name's first write
\* is replaced by a Constant of the captured value, each write is left as it
\* is, and no read after the first write is replaced; the body
\* a = N; N = 10; return (a, N) then returns (captured N, 10).
C2_ReadBeforeWrite ==
    Walked =>
        LET o == Leaves(OrigDef.kids)
            n == Leaves(res.newFnc.kids)
        IN  /\ Len(n) = Len(o)
            /\ \A i \in 1..Len(o) :
                  (o[i].op = "Name" /\ o[i].id \in DOMAIN res.filtered) =>
                      IF o[i].ctx = "Load" /\ ~(\E j \in 1..(i - 1) : o[j] = Store(o[i].id))
                      THEN n[i] = Constant(res.filtered[o[i].id])
                      ELSE n[i] = o[i]
            /\ ( /\ lastCall.called
                 /\ fnc.tree.stmt = "FunctionDef"
                 /\ OrigBody = ExampleBody
                 /\ "N" \in DOMAIN res.filtered )
               => lastCall.result = Val("tuple", res.filtered["N"].v \o <<10>>)

\* C2 witness: the example body, frozen with N = 3 and called: (3, 10).
C2_Witness ==
    /\ pc = "returned" /\ lastCall.called
    /\ OrigBody = ExampleBody
    /\ res.filtered = Bind("N", IntV(3))
    /\ BodyOf(res.obj.code)[1] = Assign(Store("a"), Constant(IntV(3)))
    /\ BodyOf(res.obj.code)[3] = Return(Tuple(Load("a"), Load("N")))
    /\ lastCall.result = Val("tuple", <<3, 10>>)

\* C3 (as claimed): the mapping handed to the tree substitution holds
\* exactly the captured entries whose value's runtime type is one of the
\* eight allow-listed types and whose name is not in the ignore list.
C3_ExactTypesOnly ==
    Walked =>
        res.filtered = [n \in Eligible(res.scope) |-> res.scope[n]]

\* C4: the Freeze call captures, for a name bound in both namespaces of the
\* defining frame, the local value when enforce_globals is false and the
\* global value when it is true, and for a name bound in one of them that
\* value; the mapping handed to the substitution holds captured values; and
\* the call leaves both namespaces of the frame as they were.
C4_Precedence ==
    [][ ( /\ pc \in {"defined", "factory"}
          /\ pc' \in {"returned", "raised"}
          /\ res'.stage \notin {"target", "source"} )
        => LET L == DefinerFrame.f_locals
               G == DefinerFrame.f_globals
           IN  /\ DOMAIN res'.scope = DOMAIN L \cup DOMAIN G
               /\ \A n \in DOMAIN L \cap DOMAIN G :
                     res'.scope[n] = IF cfg.enforce_globals THEN G[n] ELSE L[n]
               /\ \A n \in DOMAIN L \ DOMAIN G : res'.scope[n] = L[n]
               /\ \A n \in DOMAIN G \ DOMAIN L : res'.scope[n] = G[n]
               /\ \A n \in DOMAIN res'.filtered : res'.filtered[n] = res'.scope[n]
               /\ modGlobals' = modGlobals
               /\ callerLocals' = callerLocals ]_vars

\* C4 witness: N is 7 in the caller's locals and 3 in the globals,
\* enforce_globals is true, and 3 was captured and inlined.
C4_Witness ==
    /\ pc = "returned" /\ ~atModule /\ cfg.enforce_globals
    /\ callerLocals = Bind("N", IntV(7))
    /\ "N" \in DOMAIN modGlobals /\ modGlobals["N"] = IntV(3)
    /\ res.scope["N"] = IntV(3)
    /\ BodyOf(res.obj.code) = <<Return(BinOp(Load("x"), Constant(IntV(3))))>>

IsOwnEntry(deco) == deco \in FreezeDecos
NotOwnEntry(deco) == ~IsOwnEntry(deco)

\* C5 (as claimed): for every decorator list that holds Freeze's own entry,
\* whatever the form of the other entries, the stripping step completes and
\* the list re-attached is the original one without Freeze's own entry, the
\* rest in its order.
C5_OthersKept ==
    ( /\ Finished
      /\ fnc.tree.stmt \in {"FunctionDef", "ClassDef"}
      /\ FreezeAt(fnc.tree.decorator_list) # {}
      /\ res.stage \notin {"target", "source"} )
    => /\ res.stage # "strip"
       /\ res.newDecoList = SelectSeq(fnc.tree.decorator_list, NotOwnEntry)

\* C6 (as claimed): when the source of a function or class cannot be
\* retrieved or parsed, the call raises FreezeError, and nothing else
\* escapes from that stage.
C6_FreezeErrorOnly ==
    /\ (Finished /\ res.stage = "source") => res.exc = "FreezeError"
    /\ (Finished /\ IsTarget(fnc) /\ (fnc.indented \/ fnc.filename \notin SourceFiles))
          => (pc = "raised" /\ res.exc = "FreezeError")

\* C7 (as claimed): a second Freeze call on the callable a first call
\* returned does not raise.
C7_RefreezeReturns == res2.status # "raised"

\* C8 (as claimed): Freeze applied as a decorator to a class whose source
\* can be read returns the class, with the reads in its body and its
\* methods substituted.
C8_ClassReturned ==
    ( /\ Finished
      /\ fnc.kind = "class"
      /\ fnc.tree.decorator_list \in {<<Deco("Name", "Freeze")>>, <<Deco("Call", "Freeze")>>}
      /\ ~fnc.indented /\ fnc.filename \in SourceFiles )
    => /\ pc = "returned"
       /\ res.obj.oid = fnc.oid
       /\ ReadIn(res.obj.code.kids) \cap DOMAIN res.filtered = {}

\* C9 (as claimed): the callable Freeze returns resolves the names left in
\* its body in the scope where the target was defined: a call returns what
\* its code evaluates to in the defining module's globals as they are then.
C9_DefiningScope ==
    lastCall.called =>
        lastCall.result = CallCode(res.obj.code, IntV(2), lastCall.glob)

\* C10 (as claimed): a read of a name the target binds as a parameter is
\* never replaced by a captured literal.
C10_ParametersKept ==
    (pc = "returned" /\ fnc.kind = "function") =>
        LET o == Leaves(OrigDef.kids)
            n == Leaves(res.obj.code.kids)
        IN  \A i \in 1..Len(o) :
               (o[i].op = "Name" /\ o[i].id \in ParamNames(OrigDef)) =>
                   (i <= Len(n) /\ n[i] = o[i])
====
